---- MODULE Spec2Model ----
(***************************************************************************)
(* Model of python/thunder/utils/context.py: the ThunderContext wrapper of *)
(* a Spark context and the module function preprocess.                     *)
(*                                                                         *)
(* One call of a method runs from pc = "idle" to pc = "done"; every        *)
(* call the method makes into a loader, a file reader or the engine is a   *)
(* step that appends to the log `calls`.  What the file system holds (the  *)
(* configuration file, the MAT variables, the remote parameter file) is    *)
(* drawn at the step that reads it.                                        *)
(***************************************************************************)
EXTENDS Integers, Sequences, FiniteSets, TLC

(* ---------------------------------------------------------------- bounds *)
\* nkeys / nvalues range over 1..MaxN
MaxN == 2
\* minPartitions ranges over 1..MaxPartitions
MaxPartitions == 2
\* a MAT variable and a keys variable hold 0..MaxRows rows
MaxRows == 2

(* ------------------------------------------------------- program constants *)
\* def loadSeries(..., nkeys=3, ...)
DefaultNkeys == 3
\* loadExample: minPartitions=1
ExamplePartitions == 1
\* loadExampleEC2: minPartitions=1000
EC2Partitions == 1000
\* def loadMatLocal(..., minPartitions=1)
DefaultMatPartitions == 1
\* loadMatLocal: if data.ndim > 2
MaxNdim == 2

(* ----------------------------------------------------------- Python values *)
\* None is the empty tuple, any other optional value x is <<x>>
None == <<>>
Some(x) == <<x>>
Min(a, b) == IF a <= b THEN a ELSE b

\* A string the code inspects character by character is a tuple of characters.
UpperCase == <<"A","B","C","D","E","F","G","H","I","J","K","L","M",
               "N","O","P","Q","R","S","T","U","V","W","X","Y","Z">>
LowerCase == <<"a","b","c","d","e","f","g","h","i","j","k","l","m",
               "n","o","p","q","r","s","t","u","v","w","x","y","z">>

\* str.lower() on one character
LowerChar(c) ==
    IF \E i \in 1..Len(UpperCase) : UpperCase[i] = c
    THEN LowerCase[CHOOSE i \in 1..Len(UpperCase) : UpperCase[i] = c]
    ELSE c

\* str.lower()
Lower(s) == [i \in 1..Len(s) |-> LowerChar(s[i])]

\* sub in s, on strings
Contains(s, sub) ==
    \E i \in 1..(Len(s) - Len(sub) + 1) : SubSeq(s, i, i + Len(sub) - 1) = sub

\* bool(x) of an optional string: None and '' are false
Truthy(x) == x # None /\ x[1] # ""

(* ------------------------------------------------------------- the literals *)
STR_text   == <<"t","e","x","t">>
STR_binary == <<"b","i","n","a","r","y">>
STR_stack  == <<"s","t","a","c","k">>
STR_tif    == <<"t","i","f">>
STR_png    == <<"p","n","g">>
STR_ec     == <<"e","c">>

\* ('text', 'binary') of loadSeries and ('stack', 'png', 'tif') of loadImages
SeriesFormats == {STR_text, STR_binary}
ImagesFormats == {STR_stack, STR_png, STR_tif}

(* ---------------------------------------------------------------- inputs *)
\* format tags a caller may pass
Tags ==
    { STR_text, STR_binary, STR_stack, STR_tif, STR_png,
      <<"T","E","X","T">>, <<"B","i","n","a","r","y">>, <<"P","N","G">>,
      <<"T","i","f">>, <<"S","t","a","c","k">>,
      <<"c","s","v">>, <<"C","S","V">>, <<"t","e","x","t"," ">>, <<>> }

\* sc.master of the wrapped context
Masters ==
    { <<"l","o","c","a","l">>,
      <<"e","c","2","-","1">>,
      <<"s","p","a","r","k",":","/","/","e","c","2">>,
      <<"s","p","a","r","k",":","/","/","s","e","c">>,
      <<"s","p","a","r","k",":","/","/","E","C","2">>,
      <<"e","-","c">> }

Datasets == {"iris", "fish", "zebrafish-optomotor-response", "Iris", "mnist"}
DataFiles == {"data/series", "data/series/a.bin"}
ConfFiles == {"conf.json"}
MatFiles == {"data.mat"}
VarNames == {"X"}
KeyFileArgs == {None, Some(""), Some("keys.mat")}
MethodArgs == {None, Some(""), Some("sub"), Some("raw")}
DimsArgs == {None, Some(<<2, 2>>)}
NArgs == 1..MaxN
PartitionArgs == 1..MaxPartitions
OptsArgs == {"none", "npartitions"}

\* what SeriesLoader.loadConf may return: None, or the dict of the JSON file,
\* which holds any of the keys 'nkeys' and 'nvalues'
ConfKeys == {"nkeys", "nvalues"}
Confs == {None} \cup
    { Some(d) : d \in UNION { [S -> NArgs] : S \in SUBSET ConfKeys } }

\* the first line of the remote params.json: text that json.loads rejects, or a
\* JSON object with or without 'trials'
ParamFiles ==
    { [json |-> FALSE, trials |-> None],
      [json |-> TRUE, trials |-> None],
      [json |-> TRUE, trials |-> Some(<<1, 2>>)],
      [json |-> TRUE, trials |-> Some(<<>>)] }

\* one slice along the first axis of a MAT variable, flattened
Rows == { <<0, 1>>, <<1, 0>>, <<1, 1>> }
RowLists == UNION { [1..n -> Rows] : n \in 0..MaxRows }
\* loadmat(datafile)[varname]
Mats == { [ndim |-> d, rows |-> r] : d \in 1..(MaxNdim + 1), r \in RowLists }
\* loadmat(keyfile)['keys']
KeyRows == { <<1, 1>>, <<2, 1>> }
KeyMats == UNION { [1..n -> KeyRows] : n \in 0..MaxRows }

VARIABLES
    master,   \* self._sc.master
    pc,       \* where the running call stands, "idle" when none runs
    frame,    \* the method called on the context and its arguments
    series,   \* the arguments of the running loadSeries
    params,   \* loadSeries: params
    loader,   \* loadSeries, loadImages: loader
    data,     \* loadExampleEC2, loadMatLocal: data
    keys,     \* loadMatLocal: keys
    calls,    \* the calls made into loaders, readers and the engine, in order
    outcome   \* how the last call ended

vars == <<master, pc, frame, series, params, loader, data, keys, calls, outcome>>


(* ------------------------------------------------------ errors and results *)
\* an exception: its class, the message as template % arg, the line that raises
Error(type, template, arg, line) ==
    [type |-> type, template |-> template, arg |-> arg, line |-> line]
NoError == Error("", "", None, 0)

\* what an evaluation that may raise yields
Ok(v) == [ok |-> TRUE, value |-> Some(v), error |-> NoError]
Fail(e) == [ok |-> FALSE, value |-> None, error |-> e]

NoOutcome == [kind |-> "none", value |-> None, error |-> NoError]
Running   == [kind |-> "running", value |-> None, error |-> NoError]
Returned(v) == [kind |-> "return", value |-> Some(v), error |-> NoError]
Raised(e) == [kind |-> "error", value |-> None, error |-> e]

\* one entry of the log
Call(fn, args) == [fn |-> fn, args |-> args]

(* -------------------------------------------------- the external collaborators *)
\* the collection a loader method hands back: a handle naming what was read
SeriesRDD(fn, datafile, ld) ==
    [rdd |-> fn, datafile |-> datafile, nkeys |-> ld.nkeys,
     nvalues |-> ld.nvalues, minPartitions |-> ld.minPartitions]
ImagesRDD(fn, datafile, ld) == [rdd |-> fn, datafile |-> datafile, dims |-> ld.dims]
ExampleRDD(dataset, opts) == [rdd |-> "DataSets.make", dataset |-> dataset, opts |-> opts]

\* sc.parallelize(c, numSlices): the records of c, in order
Parallelize(c, numSlices) == [records |-> c, numSlices |-> numSlices]

\* PreProcessor(method).get, on one value
PreProcessorGet(method, v) ==
    IF method = "sub"
    THEN LET m == CHOOSE x \in {v[i] : i \in DOMAIN v} :
                      \A y \in {v[i] : i \in DOMAIN v} : x <= y
         IN [i \in DOMAIN v |-> v[i] - m]
    ELSE v

\* rdd.mapValues(f): f on the value of every record, the key kept
MapValues(rdd, method) ==
    [rdd EXCEPT !.records =
        [i \in DOMAIN rdd.records |->
            <<rdd.records[i][1], PreProcessorGet(method, rdd.records[i][2])>>]]

(* ------------------------------------------------------------ pure helpers *)
\* the membership test without lower()
SeriesFormatValid_caseSensitive(inputformat) == inputformat \in SeriesFormats

\* loadSeries: inputformat.lower() in ('text', 'binary')
SeriesFormatValid(inputformat) == Lower(inputformat) \in SeriesFormats

\* loadImages: inputformat.lower() in ('stack', 'png', 'tif')
ImagesFormatValid(inputformat) == Lower(inputformat) \in ImagesFormats

\* the message built from the lower-cased tag
SeriesFormatError_lowered(inputformat) ==
    Error("ValueError", "inputformat must be either 'text' or 'binary', got %s",
          Some(Lower(inputformat)), 63)

\* loadSeries: ValueError("inputformat must be ... got %s" % inputformat)
SeriesFormatError(inputformat) ==
    Error("ValueError", "inputformat must be either 'text' or 'binary', got %s",
          Some(inputformat), 63)

\* loadImages: ValueError("inputformat must be ... got %s" % inputformat)
ImagesFormatError(inputformat) ==
    Error("ValueError", "inputformat must be either 'stack', 'png', or 'tif', got %s",
          Some(inputformat), 98)

\* the caller's nvalues, when given, kept over the configuration file's
MakeSeriesLoader_callerFirst(p, a) ==
    IF p = None
    THEN IF Lower(a.inputformat) = STR_binary /\ a.nvalues = None
         THEN Fail(Error("ValueError",
                  "Must specify nvalues for binary input if not providing a configuration file",
                  None, 67))
         ELSE Ok([nkeys |-> a.nkeys, nvalues |-> a.nvalues,
                  minPartitions |-> a.minPartitions])
    ELSE IF "nkeys" \notin DOMAIN p[1]
         THEN Fail(Error("KeyError", "%r", Some("nkeys"), 70))
         ELSE IF "nvalues" \notin DOMAIN p[1]
         THEN Fail(Error("KeyError", "%r", Some("nvalues"), 70))
         ELSE Ok([nkeys |-> p[1]["nkeys"],
                  nvalues |-> IF a.nvalues # None THEN a.nvalues
                              ELSE Some(p[1]["nvalues"]),
                  minPartitions |-> a.minPartitions])

\* loadSeries: the loader built from params and the caller's arguments
MakeSeriesLoader(p, a) ==
    IF p = None
    THEN IF Lower(a.inputformat) = STR_binary /\ a.nvalues = None
         THEN Fail(Error("ValueError",
                  "Must specify nvalues for binary input if not providing a configuration file",
                  None, 67))
         ELSE Ok([nkeys |-> a.nkeys, nvalues |-> a.nvalues,
                  minPartitions |-> a.minPartitions])
    ELSE IF "nkeys" \notin DOMAIN p[1]
         THEN Fail(Error("KeyError", "%r", Some("nkeys"), 70))
         ELSE IF "nvalues" \notin DOMAIN p[1]
         THEN Fail(Error("KeyError", "%r", Some("nvalues"), 70))
         ELSE Ok([nkeys |-> p[1]["nkeys"], nvalues |-> Some(p[1]["nvalues"]),
                  minPartitions |-> a.minPartitions])

\* loadSeries: the loader method the format selects
SeriesReader(inputformat) ==
    IF Lower(inputformat) = STR_text
    THEN "SeriesLoader.fromText"
    ELSE "SeriesLoader.fromBinary"

\* loadImages: the loader method the format selects
ImagesReader(inputformat) ==
    IF Lower(inputformat) = STR_stack THEN "ImagesLoader.fromStack"
    ELSE IF Lower(inputformat) = STR_tif THEN "ImagesLoader.fromTif"
    ELSE "ImagesLoader.fromPng"

\* the substring test made on the lower-cased master
OnEC2_ignoreCase(m) == Contains(Lower(m), STR_ec)

\* loadExampleEC2: 'ec' in self._sc.master
OnEC2(m) == Contains(m, STR_ec)

\* loadExample: the bundled file of a dataset, None for an unknown name
ExampleFile(dataset) ==
    IF dataset = "iris" THEN Some("data/iris.txt")
    ELSE IF dataset = "fish" THEN Some("data/fish.txt")
    ELSE None

\* arange(n): indices from 0
Arange1_zeroBased(n) == [i \in 1..n |-> i - 1]

\* arange(1, n + 1)
Arange1(n) == [i \in 1..n |-> i]

\* map(lambda x: tuple(x), m)
MapTuple(m) == [i \in 1..Len(m) |-> [j \in 1..Len(m[i]) |-> m[i][j]]]

\* zip(keys, data): pairs up to the shorter of the two
Zip(ks, rows) == [i \in 1..Min(Len(ks), Len(rows)) |-> <<ks[i], rows[i]>>]

\* a default transform applied when no method is named
preprocess_defaultSub(rdd, method) ==
    IF Truthy(method)
    THEN MapValues(rdd, method[1])
    ELSE MapValues(rdd, "sub")

\* preprocess(data, method)
preprocess(rdd, method) ==
    IF Truthy(method)
    THEN MapValues(rdd, method[1])
    ELSE rdd


(* ------------------------------------------------------------------ steps *)
\* a method is called on the idle context: its locals are fresh
Enter(f, label) ==
    /\ frame' = f
    /\ pc' = label
    /\ series' = None /\ params' = None /\ loader' = None /\ data' = None /\ keys' = None
    /\ calls' = <<>>
    /\ outcome' = Running
    /\ UNCHANGED master

\* an exception leaves every method on the stack: none of them catches
Raise(e) == outcome' = Raised(e) /\ pc' = "done"

\* the called method returns v to the caller of the context
Return(v) == outcome' = Returned(v) /\ pc' = "done"

\* the arguments of a loadSeries call
SeriesArgs(datafile, nkeys, nvalues, inputformat, minPartitions, conffile) ==
    [datafile |-> datafile, nkeys |-> nkeys, nvalues |-> nvalues,
     inputformat |-> inputformat, minPartitions |-> minPartitions,
     conffile |-> conffile]

\* the caller has the result or the exception; the call's locals are gone
\* and the context, which holds nothing but _sc, takes the next call
complete ==
    /\ pc = "done"
    /\ pc' = "idle"
    /\ frame' = [op |-> "none"]
    /\ series' = None /\ params' = None /\ loader' = None
    /\ data' = None /\ keys' = None
    /\ calls' = <<>>
    /\ outcome' = NoOutcome
    /\ UNCHANGED master

\* ThunderContext(sparkcontext), ThunderContext.start(...)
Init ==
    /\ master \in Masters
    /\ pc = "idle"
    /\ frame = [op |-> "none"]
    /\ series = None /\ params = None /\ loader = None
    /\ data = None /\ keys = None
    /\ calls = <<>>
    /\ outcome = NoOutcome

(* loadSeries *)
loadSeries(datafile, nkeys, nvalues, inputformat, minPartitions, conffile) ==
    /\ pc = "idle"
    /\ Enter([op |-> "loadSeries",
           args |-> SeriesArgs(datafile, nkeys, nvalues, inputformat,
                               minPartitions, conffile)], "loadSeries:61")

\* the call binds the parameters
loadSeries_bind ==
    /\ pc = "loadSeries:61"
    /\ series' = Some(frame.args)
    /\ pc' = "loadSeries:62"
    /\ UNCHANGED <<master, frame, params, loader, data, keys, calls, outcome>>

\* lines 62-63
loadSeries_validate ==
    /\ pc = "loadSeries:62"
    /\ IF SeriesFormatValid(series[1].inputformat)
       THEN pc' = "loadSeries:64" /\ UNCHANGED outcome
       ELSE Raise(SeriesFormatError(series[1].inputformat))
    /\ UNCHANGED <<master, frame, series, params, loader, data, keys, calls>>

\* lines 64-70
loadSeries_loadConf ==
    /\ pc = "loadSeries:64"
    /\ \E p \in Confs :
        LET made == MakeSeriesLoader(p, series[1]) IN
        /\ params' = p
        /\ calls' = Append(calls, Call("SeriesLoader.loadConf",
                        <<series[1].datafile, series[1].conffile>>))
        /\ IF made.ok
           THEN loader' = made.value /\ pc' = "loadSeries:72" /\ UNCHANGED outcome
           ELSE Raise(made.error) /\ UNCHANGED loader
    /\ UNCHANGED <<master, frame, series, data, keys>>

\* lines 72-77, and the return into loadExample or loadExampleEC2
loadSeries_read ==
    /\ pc = "loadSeries:72"
    /\ LET fn == SeriesReader(series[1].inputformat)
           rdd == SeriesRDD(fn, series[1].datafile, loader[1])
       IN /\ calls' = Append(calls, Call(fn, <<series[1].datafile, master>>))
          /\ IF frame.op = "loadExampleEC2"
             THEN data' = Some(rdd) /\ pc' = "loadExampleEC2:175" /\ UNCHANGED outcome
             ELSE Return(rdd) /\ UNCHANGED data
    /\ UNCHANGED <<master, frame, series, params, loader, keys>>

(* loadImages *)
loadImages(datafile, dims, inputformat) ==
    /\ pc = "idle"
    /\ Enter([op |-> "loadImages", datafile |-> datafile, dims |-> dims,
              inputformat |-> inputformat], "loadImages:97")

\* the reader called before the format is checked
loadImages_validate_late ==
    /\ pc = "loadImages:97"
    /\ IF ImagesFormatValid(frame.inputformat)
       THEN loader' = Some([dims |-> frame.dims]) /\ pc' = "loadImages:101"
            /\ UNCHANGED <<outcome, calls>>
       ELSE /\ calls' = Append(calls, Call(ImagesReader(frame.inputformat),
                                           <<frame.datafile, master>>))
            /\ Raise(ImagesFormatError(frame.inputformat)) /\ UNCHANGED loader
    /\ UNCHANGED <<master, frame, series, params, data, keys>>

\* lines 97-99
loadImages_validate ==
    /\ pc = "loadImages:97"
    /\ IF ImagesFormatValid(frame.inputformat)
       THEN loader' = Some([dims |-> frame.dims]) /\ pc' = "loadImages:101"
            /\ UNCHANGED outcome
       ELSE Raise(ImagesFormatError(frame.inputformat)) /\ UNCHANGED loader
    /\ UNCHANGED <<master, frame, series, params, data, keys, calls>>

\* lines 101-108
loadImages_read ==
    /\ pc = "loadImages:101"
    /\ LET fn == ImagesReader(frame.inputformat)
       IN /\ calls' = Append(calls, Call(fn, <<frame.datafile, master>>))
          /\ Return(ImagesRDD(fn, frame.datafile, loader[1]))
    /\ UNCHANGED <<master, frame, series, params, loader, data, keys>>

(* makeExample *)
makeExample(dataset, opts) ==
    /\ pc = "idle"
    /\ Enter([op |-> "makeExample", dataset |-> dataset, opts |-> opts],
             "makeExample:126")

\* line 126
makeExample_make ==
    /\ pc = "makeExample:126"
    /\ calls' = Append(calls, Call("DataSets.make", <<master, frame.dataset, frame.opts>>))
    /\ Return(ExampleRDD(frame.dataset, frame.opts))
    /\ UNCHANGED <<master, frame, series, params, loader, data, keys>>

(* loadExample *)
loadExample(dataset) ==
    /\ pc = "idle"
    /\ Enter([op |-> "loadExample", dataset |-> dataset], "loadExample:143")

\* lines 143-150
loadExample_dispatch ==
    /\ pc = "loadExample:143"
    /\ IF ExampleFile(frame.dataset) # None
       THEN /\ series' = Some(SeriesArgs(ExampleFile(frame.dataset)[1], DefaultNkeys,
                                None, STR_text, Some(ExamplePartitions), "conf.json"))
            /\ pc' = "loadSeries:62"
            /\ UNCHANGED outcome
       ELSE /\ Raise(Error("NotImplementedError", "Dataset '%s' not found",
                           Some(frame.dataset), 150))
            /\ UNCHANGED series
    /\ UNCHANGED <<master, frame, params, loader, data, keys, calls>>

(* loadExampleEC2 *)
loadExampleEC2(dataset) ==
    /\ pc = "idle"
    /\ Enter([op |-> "loadExampleEC2", dataset |-> dataset], "loadExampleEC2:170")

\* lines 170-174 and 179-180
loadExampleEC2_dispatch ==
    /\ pc = "loadExampleEC2:170"
    /\ IF ~OnEC2(master)
       THEN /\ Raise(Error("Exception",
                     "must be running on EC2 to load this example data sets", None, 171))
            /\ UNCHANGED series
       ELSE IF frame.dataset = "zebrafish-optomotor-response"
       THEN /\ series' = Some(SeriesArgs(
                    "s3n://zebrafish.datasets/optomotor-response/1/data/dat_plane*.txt",
                    DefaultNkeys, None, STR_text, Some(EC2Partitions), "conf.json"))
            /\ pc' = "loadSeries:62"
            /\ UNCHANGED outcome
       ELSE /\ Raise(Error("NotImplementedError", "dataset '%s' not availiable",
                           Some(frame.dataset), 180))
            /\ UNCHANGED series
    /\ UNCHANGED <<master, frame, params, loader, data, keys, calls>>

\* lines 175-178
loadExampleEC2_params ==
    /\ pc = "loadExampleEC2:175"
    /\ \E pf \in ParamFiles :
        /\ calls' = calls \o
              << Call("sc.textFile",
                      <<"s3n://zebrafish.datasets/optomotor-response/1/params.json">>),
                 Call("RDD.first", <<>>) >>
        /\ IF ~pf.json
           THEN Raise(Error("ValueError", "No JSON object could be decoded", None, 176))
           ELSE IF pf.trials = None
           THEN Raise(Error("KeyError", "%r", Some("trials"), 177))
           ELSE Return(<<data[1], pf.trials[1]>>)
    /\ UNCHANGED <<master, frame, series, params, loader, data, keys>>

(* loadBinaryLocal, loadArrayLocal *)
loadBinaryLocal ==
    /\ pc = "idle"
    /\ Enter([op |-> "loadBinaryLocal"], "loadBinaryLocal:187")

\* line 187
loadBinaryLocal_raise ==
    /\ pc = "loadBinaryLocal:187"
    /\ Raise(Error("NotImplementedError", "", None, 187))
    /\ UNCHANGED <<master, frame, series, params, loader, data, keys, calls>>

loadArrayLocal ==
    /\ pc = "idle"
    /\ Enter([op |-> "loadArrayLocal"], "loadArrayLocal:194")

\* line 194
loadArrayLocal_raise ==
    /\ pc = "loadArrayLocal:194"
    /\ Raise(Error("NotImplementedError", "", None, 194))
    /\ UNCHANGED <<master, frame, series, params, loader, data, keys, calls>>

(* loadMatLocal *)
loadMatLocal(datafile, varname, keyfile, filter, minPartitions) ==
    /\ pc = "idle"
    /\ Enter([op |-> "loadMatLocal", datafile |-> datafile, varname |-> varname,
              keyfile |-> keyfile, filter |-> filter,
              minPartitions |-> minPartitions], "loadMatLocal:224")

\* lines 224-226
loadMatLocal_loadmat ==
    /\ pc = "loadMatLocal:224"
    /\ \E m \in Mats :
        /\ calls' = Append(calls, Call("loadmat", <<frame.datafile>>))
        /\ data' = Some(m)
        /\ IF m.ndim > MaxNdim
           THEN Raise(Error("IOError", "input data must be one or two dimensional",
                            None, 226))
           ELSE pc' = "loadMatLocal:227" /\ UNCHANGED outcome
    /\ UNCHANGED <<master, frame, series, params, loader, keys>>

\* lines 227-230
loadMatLocal_keys ==
    /\ pc = "loadMatLocal:227"
    /\ IF Truthy(frame.keyfile)
       THEN \E km \in KeyMats :
              /\ calls' = Append(calls, Call("loadmat", <<frame.keyfile[1]>>))
              /\ keys' = Some(MapTuple(km))
       ELSE /\ keys' = Some(Arange1(Len(data[1].rows)))
            /\ UNCHANGED calls
    /\ pc' = "loadMatLocal:232"
    /\ UNCHANGED <<master, frame, series, params, loader, data, outcome>>

\* lines 232-234
loadMatLocal_parallelize ==
    /\ pc = "loadMatLocal:232"
    /\ LET pairs == Zip(keys[1], data[1].rows)
           rdd == Parallelize(pairs, frame.minPartitions)
       IN /\ calls' = Append(calls, Call("sc.parallelize", <<pairs, frame.minPartitions>>))
          /\ Return(preprocess(rdd, frame.filter))
    /\ UNCHANGED <<master, frame, series, params, loader, data, keys>>

(* preprocess, called on a collection *)
\* a collection of records with keys 1..n
Collections ==
    { Parallelize(Zip(Arange1(Len(r)), r), n) : r \in RowLists, n \in PartitionArgs }

preprocess_call(rdd, method) ==
    /\ pc = "idle"
    /\ Enter([op |-> "preprocess", data |-> rdd, method |-> method], "preprocess:239")

\* lines 239-243
preprocess_run ==
    /\ pc = "preprocess:239"
    /\ Return(preprocess(frame.data, frame.method))
    /\ UNCHANGED <<master, frame, series, params, loader, data, keys, calls>>

Next ==
    \/ \E datafile \in DataFiles, nkeys \in NArgs \cup {DefaultNkeys},
          nvalues \in {None} \cup {Some(n) : n \in NArgs}, inputformat \in Tags,
          minPartitions \in {None} \cup {Some(n) : n \in PartitionArgs},
          conffile \in ConfFiles :
            loadSeries(datafile, nkeys, nvalues, inputformat, minPartitions, conffile)
    \/ loadSeries_bind
    \/ loadSeries_validate
    \/ loadSeries_loadConf
    \/ loadSeries_read
    \/ \E datafile \in DataFiles, dims \in DimsArgs, inputformat \in Tags :
            loadImages(datafile, dims, inputformat)
    \/ loadImages_validate
    \/ loadImages_read
    \/ \E dataset \in Datasets, opts \in OptsArgs : makeExample(dataset, opts)
    \/ makeExample_make
    \/ \E dataset \in Datasets : loadExample(dataset)
    \/ loadExample_dispatch
    \/ \E dataset \in Datasets : loadExampleEC2(dataset)
    \/ loadExampleEC2_dispatch
    \/ loadExampleEC2_params
    \/ loadBinaryLocal
    \/ loadBinaryLocal_raise
    \/ loadArrayLocal
    \/ loadArrayLocal_raise
    \/ \E datafile \in MatFiles, varname \in VarNames, keyfile \in KeyFileArgs,
          filter \in MethodArgs,
          minPartitions \in PartitionArgs \cup {DefaultMatPartitions} :
            loadMatLocal(datafile, varname, keyfile, filter, minPartitions)
    \/ loadMatLocal_loadmat
    \/ loadMatLocal_keys
    \/ loadMatLocal_parallelize
    \/ \E rdd \in Collections, method \in MethodArgs : preprocess_call(rdd, method)
    \/ preprocess_run
    \/ complete

Spec == Init /\ [][Next]_vars


(* ================================================================ claims *)
Done == pc = "done"
Failed == Done /\ outcome.kind = "error"
Succeeded == Done /\ outcome.kind = "return"
LastCall == calls[Len(calls)]

\* the loader methods and engine operations that read or distribute data
EngineFns ==
    { "SeriesLoader.fromText", "SeriesLoader.fromBinary", "ImagesLoader.fromStack",
      "ImagesLoader.fromTif", "ImagesLoader.fromPng", "DataSets.make",
      "sc.textFile", "RDD.first", "sc.parallelize" }
EngineWork == \E i \in 1..Len(calls) : calls[i].fn \in EngineFns

(* ---- C1 ---- *)
\* C1 as stated: every format tag that is not one of the strings text, binary
\* makes loadSeries fail with ValueError, every tag that is not one of stack,
\* tif, png makes loadImages fail with ValueError, and no loader method is called.
C1_AsStated ==
    /\ (Done /\ frame.op = "loadSeries" /\ frame.args.inputformat \notin SeriesFormats)
          => (outcome.kind = "error" /\ outcome.error.type = "ValueError" /\ calls = <<>>)
    /\ (Done /\ frame.op = "loadImages" /\ frame.inputformat \notin ImagesFormats)
          => (outcome.kind = "error" /\ outcome.error.type = "ValueError" /\ calls = <<>>)

\* C1 amended: loadSeries (loadImages) fails with the invalid-format ValueError,
\* having called no loader method, exactly for the tags whose lower-cased form is
\* not text or binary (stack, tif or png); a tag that differs from a recognised
\* one only in letter case is accepted.
C1_FormatRejectedIffLowerUnknown ==
    /\ (Done /\ frame.op = "loadSeries") =>
          IF Lower(frame.args.inputformat) \in {STR_text, STR_binary}
          THEN ~(outcome.kind = "error" /\ outcome.error.line = 63)
          ELSE /\ outcome = Raised(SeriesFormatError(frame.args.inputformat))
               /\ calls = <<>> /\ loader = None
    /\ (Done /\ frame.op = "loadImages") =>
          IF Lower(frame.inputformat) \in {STR_stack, STR_tif, STR_png}
          THEN outcome.kind = "return"
          ELSE /\ outcome = Raised(ImagesFormatError(frame.inputformat))
               /\ calls = <<>> /\ loader = None

\* an unknown tag was rejected by loadSeries
C1_Witness ==
    /\ Done /\ frame.op = "loadSeries"
    /\ frame.args.inputformat = <<"c","s","v">>
    /\ outcome.kind = "error" /\ outcome.error.type = "ValueError"
    /\ calls = <<>>

(* ---- C2 ---- *)
\* C2 as stated: binary without nvalues and without a configuration file fails
\* with ValueError; binary reaches the binary loader and returns its result
\* whenever the caller gives nvalues or a configuration file holding nvalues is
\* found; text without nvalues and without a configuration file does not fail.
C2_AsStated ==
    (Done /\ frame.op = "loadSeries") =>
        LET a == frame.args IN
        /\ (a.inputformat = STR_binary /\ a.nvalues = None /\ params = None)
              => (outcome.kind = "error" /\ outcome.error.type = "ValueError")
        /\ (a.inputformat = STR_binary /\
              (a.nvalues # None \/ (params # None /\ "nvalues" \in DOMAIN params[1])))
              => (outcome.kind = "return" /\ LastCall.fn = "SeriesLoader.fromBinary")
        /\ (a.inputformat = STR_text /\ a.nvalues = None /\ params = None)
              => outcome.kind = "return"

(* ---- C3 ---- *)
\* C3: in loadSeries, a loader built with a configuration file found holds the
\* file's nkeys and nvalues whatever the caller passed; with none found it
\* holds the caller's nkeys and nvalues; minPartitions is the caller's; and the
\* collection read is read with that loader.
C3_ConfOverridesCaller ==
    (series # None /\ loader # None) =>
        /\ IF params # None
           THEN /\ loader[1].nkeys = params[1]["nkeys"]
                /\ loader[1].nvalues = Some(params[1]["nvalues"])
           ELSE /\ loader[1].nkeys = series[1].nkeys
                /\ loader[1].nvalues = series[1].nvalues
        /\ loader[1].minPartitions = series[1].minPartitions
        /\ (Succeeded /\ frame.op = "loadSeries") =>
              /\ outcome.value[1].nkeys = loader[1].nkeys
              /\ outcome.value[1].nvalues = loader[1].nvalues
              /\ outcome.value[1].minPartitions = loader[1].minPartitions

\* a configuration file was found whose values both differ from the caller's
C3_Witness ==
    /\ Succeeded /\ frame.op = "loadSeries"
    /\ params # None
    /\ frame.args.nvalues # None
    /\ params[1]["nkeys"] # frame.args.nkeys
    /\ Some(params[1]["nvalues"]) # frame.args.nvalues
    /\ outcome.value[1].nkeys = params[1]["nkeys"]

(* ---- C4 ---- *)
\* C4: loadExampleEC2 on a context whose master does not contain 'ec' makes no
\* call at all (no loadSeries, no textFile) and ends with the Exception of
\* line 171, whatever the dataset name.
C4_NotOnClusterFailsFirst ==
    (frame.op = "loadExampleEC2" /\ ~Contains(master, <<"e","c">>)) =>
        /\ calls = <<>> /\ series = None
        /\ pc \in {"loadExampleEC2:170", "done"}
        /\ Done => /\ outcome.kind = "error"
                   /\ outcome.error.type = "Exception"
                   /\ outcome.error.line = 171

\* the known dataset was asked for off the cluster and the call failed
C4_Witness ==
    /\ Done /\ frame.op = "loadExampleEC2"
    /\ frame.dataset = "zebrafish-optomotor-response"
    /\ ~Contains(master, <<"e","c">>)
    /\ outcome.kind = "error"


(* ---- C5 ---- *)
\* C5 as stated: a call of any operation other than loadMatLocal that fails
\* with an error raised in the module's own code (json.loads' failure at line
\* 176 left aside) fails before any call into the engine or a loader's read
\* method.
C5_AsStated ==
    (Failed /\ frame.op # "loadMatLocal" /\ outcome.error.line # 176) => ~EngineWork

\* C5 amended: the same, but for the parameter file of loadExampleEC2: the
\* failure to parse it (line 176) and the KeyError for a parameter file without
\* 'trials' (line 177) come after loadSeries, textFile and first have run.
\* Every other failure of an operation other than loadMatLocal comes before
\* any engine work (the configuration lookup SeriesLoader.loadConf, which is
\* no engine work, may precede it), and a call that returns has delegated.
C5_FailsBeforeEngineWorkButParams ==
    /\ (Failed /\ frame.op # "loadMatLocal"
          /\ ~(frame.op = "loadExampleEC2" /\ outcome.error.line \in {176, 177}))
          => ~EngineWork
    /\ (Failed /\ frame.op = "loadExampleEC2" /\ outcome.error.line \in {176, 177})
          => (Len(calls) = 4 /\ calls[2].fn = "SeriesLoader.fromText"
              /\ calls[3].fn = "sc.textFile")
    /\ (Succeeded /\ frame.op \notin {"loadMatLocal", "preprocess"}) => EngineWork

\* loadSeries failed on the missing nvalues after the configuration lookup only
C5_Witness ==
    /\ Failed /\ frame.op = "loadSeries" /\ outcome.error.line = 67
    /\ Len(calls) = 1 /\ ~EngineWork

(* ---- C6 ---- *)
\* the lines of the module's raise statements
RaiseLines == {63, 67, 98, 150, 171, 180, 187, 194, 226}

\* C6 as stated: every error the module raises carries a message naming the
\* offending input value.
C6_AsStated ==
    (Failed /\ outcome.error.line \in RaiseLines) => outcome.error.arg # None

\* C6 amended: the invalid-format errors of loadSeries and loadImages carry the
\* format string exactly as passed, and the unsupported-dataset errors of
\* loadExample and loadExampleEC2 carry the dataset name; the missing-nvalues
\* error, the not-on-cluster error and the dimensionality error carry a fixed
\* message with no input in it, and loadBinaryLocal and loadArrayLocal raise
\* with no message at all.
C6_WhichErrorsNameTheInput ==
    Failed =>
        LET e == outcome.error IN
        /\ e.line \in RaiseLines \cup {70, 176, 177}
        /\ (e.line = 63) => (e.arg = Some(series[1].inputformat) /\ e.type = "ValueError")
        /\ (e.line = 98) => (e.arg = Some(frame.inputformat) /\ e.type = "ValueError")
        /\ (e.line \in {150, 180}) =>
              (e.arg = Some(frame.dataset) /\ e.type = "NotImplementedError")
        /\ (e.line \in {67, 171, 226}) => (e.arg = None /\ e.template # "")
        /\ (e.line \in {187, 194}) =>
              (e.arg = None /\ e.template = "" /\ e.type = "NotImplementedError")
        /\ (e.line \in {70, 177}) => e.type = "KeyError"
        /\ (e.line = 176) => e.type = "ValueError"

\* an upper-case unknown tag came back in the message as it was passed
C6_Witness ==
    /\ Failed /\ frame.op = "loadSeries"
    /\ frame.args.inputformat = <<"C","S","V">>
    /\ outcome.error.arg = Some(<<"C","S","V">>)

(* ---- C7 ---- *)
\* C7 as stated: with a key file whose number of key rows differs from the
\* number of rows of the matrix, loadMatLocal ends in an error, and a returned
\* collection has exactly one record per matrix row.
C7_AsStated ==
    (Done /\ frame.op = "loadMatLocal" /\ keys # None) =>
        /\ (Truthy(frame.keyfile) /\ Len(keys[1]) # Len(data[1].rows))
              => outcome.kind = "error"
        /\ outcome.kind = "return"
              => Len(outcome.value[1].records) = Len(data[1].rows)

(* ---- C8 ---- *)
\* C8: loadMatLocal without a key file on a matrix of at most two dimensions
\* with N rows hands sc.parallelize exactly N records, the i-th being
\* (i, i-th row), with the caller's minPartitions, and returns a collection of
\* N records with keys 1..N in row order; a variable of more than two
\* dimensions ends in IOError with no call of sc.parallelize.
C8_LinearKeysInRowOrder ==
    (Done /\ frame.op = "loadMatLocal") =>
        IF data[1].ndim > 2
        THEN /\ outcome.kind = "error" /\ outcome.error.type = "IOError"
             /\ \A i \in 1..Len(calls) : calls[i].fn # "sc.parallelize"
        ELSE ~Truthy(frame.keyfile) =>
             LET rows == data[1].rows
                 sent == LastCall.args[1]
             IN /\ outcome.kind = "return"
                /\ LastCall.fn = "sc.parallelize"
                /\ LastCall.args[2] = frame.minPartitions
                /\ Len(sent) = Len(rows)
                /\ \A i \in 1..Len(rows) : sent[i] = <<i, rows[i]>>
                /\ outcome.value[1].numSlices = frame.minPartitions
                /\ Len(outcome.value[1].records) = Len(rows)
                /\ \A i \in 1..Len(rows) : outcome.value[1].records[i][1] = i

\* a two-dimensional matrix of two rows was loaded without a key file
C8_Witness ==
    /\ Succeeded /\ frame.op = "loadMatLocal"
    /\ frame.keyfile = None /\ frame.filter = None
    /\ data[1].ndim = 2 /\ Len(data[1].rows) = 2
    /\ Len(outcome.value[1].records) = 2

(* ---- C9 ---- *)
\* C9 as stated: loadExample of 'iris' or 'fish' reads the bundled text file
\* through the text loader with one partition and returns that collection;
\* any other name ends in NotImplementedError naming the dataset, with no
\* loader called.
C9_AsStated ==
    (Done /\ frame.op = "loadExample") =>
        IF frame.dataset \in {"iris", "fish"}
        THEN /\ outcome.kind = "return"
             /\ LastCall.fn = "SeriesLoader.fromText"
             /\ outcome.value[1].rdd = "SeriesLoader.fromText"
             /\ outcome.value[1].datafile =
                   (IF frame.dataset = "iris" THEN "data/iris.txt" ELSE "data/fish.txt")
             /\ outcome.value[1].minPartitions = Some(1)
        ELSE /\ outcome.kind = "error"
             /\ outcome.error.type = "NotImplementedError"
             /\ outcome.error.arg = Some(frame.dataset)
             /\ calls = <<>>

(* ---- C10 ---- *)
\* C10: preprocess with no method returns the collection it was given, records,
\* keys and values unchanged, and raises nothing; with a method it keeps the
\* number and order of the records and every key, and each value is the
\* transform of the value at the same place.
C10_PreprocessIdentityAndKeys ==
    (Done /\ frame.op = "preprocess") =>
        LET given == frame.data.records IN
        /\ outcome.kind = "return"
        /\ outcome.value[1].numSlices = frame.data.numSlices
        /\ Len(outcome.value[1].records) = Len(given)
        /\ \A i \in 1..Len(given) : outcome.value[1].records[i][1] = given[i][1]
        /\ frame.method = None => outcome.value[1] = frame.data
        /\ Truthy(frame.method) =>
              \A i \in 1..Len(given) :
                  outcome.value[1].records[i][2] =
                      PreProcessorGet(frame.method[1], given[i][2])

\* a collection of two records went through preprocess with no method
C10_Witness ==
    /\ Succeeded /\ frame.op = "preprocess"
    /\ frame.method = None
    /\ Len(frame.data.records) = 2
    /\ outcome.value[1].records = frame.data.records

====
